---- MODULE Spec2Model ----
(***************************************************************************)
(* Task / ExecutionResult / ChatMessage service of llm-multi-agent-chat.   *)
(*                                                                         *)
(* The persisted store (three PostgreSQL tables declared with drizzle) is  *)
(* the state; every handler of server/src/handlers is an action made of   *)
(* the SQL statements it issues.  A handler that issues two statements    *)
(* (createExecutionResult, createChatMessage: SELECT then INSERT) is two  *)
(* steps, so that statements of other requests interleave between them.   *)
(* The read handlers are functions of the store; since SQL leaves the     *)
(* order of rows with equal sort keys open, each yields the SET of row    *)
(* sequences the store may answer with.                                   *)
(***************************************************************************)
EXTENDS Integers, Sequences, FiniteSets, TLC

\* ---------------------------------------------------------------- bounds
MaxTasks == 2
MaxSteps == 5
MaxRows == 5
MaxLoads == 3
MaxSubmits == 3

\* ------------------------------------------------------------- constants
DefaultLimit == 50
MaxLimit == 100

\* ------------------------------------------------------- value domains
NULL == "<null>"
ABSENT == "<undefined>"

TaskStatus == {"pending", "running", "completed", "failed"}
ExecutionStatus == {"success", "error", "partial"}
ContentType == {"text", "code", "json", "markdown"}
MessageRole == {"user", "agent", "system"}

TaskIds == 1..(MaxTasks + 1)

\* JavaScript truthiness of an optional string: undefined and "" are falsy.
Truthy(v) == v # ABSENT /\ v # ""

Min(a, b) == IF a <= b THEN a ELSE b

\* ------------------------------------------------------------ the state
VARIABLES
    tasks,              \* rows of tasksTable
    executionResults,   \* rows of executionResultsTable
    chatMessages,       \* rows of chatMessagesTable
    taskSeq,            \* last value of the serial behind tasks.id
    resultSeq,          \* last value of the serial behind execution_results.id
    messageSeq,         \* last value of the serial behind chat_messages.id
    dbClock,            \* the store's clock, read by defaultNow()
    appClock,           \* the server process's clock, read by new Date()
    pendingResults,     \* createExecutionResult calls between SELECT and INSERT
    pendingMessages,    \* createChatMessage calls between SELECT and INSERT
    resp,               \* what the last completed call gave its caller
    nSteps,             \* requests and clock ticks so far (bounds a run)
    selectedTask,           \* App: <<>> (null) or <<id>> of the selected Task
    panelExecutionResults,  \* ExecutionPanel: executionResults
    panelChatMessages,      \* ExecutionPanel: chatMessages
    isLoadingResults,       \* ExecutionPanel: isLoadingResults
    isLoadingMessages,      \* ExecutionPanel: isLoadingMessages
    loads,                  \* ExecutionPanel: queries awaiting their response
    nLoads,                 \* selections and refresh clicks so far (bounds a run)
    loadErrors,             \* ExecutionPanel: failed loads logged by console.error
    formData,               \* CreateTaskDialog: formData
    isLoading,              \* CreateTaskDialog: isLoading
    isCreateDialogOpen,     \* TaskPanel: isCreateDialogOpen
    panelTasks,             \* TaskPanel: tasks
    onSubmitPending,        \* <<>> or <<data>>: the onSubmit call not yet settled
    onSubmitCalls,          \* the onSubmit calls issued so far, in order
    nSubmits                \* submit events so far (bounds a run)

store == <<tasks, executionResults, chatMessages>>
seqs == <<taskSeq, resultSeq, messageSeq>>
clocks == <<dbClock, appClock>>
pending == <<pendingResults, pendingMessages>>
server == <<tasks, executionResults, chatMessages, taskSeq, resultSeq, messageSeq,
            dbClock, appClock, pendingResults, pendingMessages, resp, nSteps>>
panel == <<selectedTask, panelExecutionResults, panelChatMessages,
           isLoadingResults, isLoadingMessages, loads, nLoads, loadErrors>>
dialog == <<formData, isLoading, isCreateDialogOpen, panelTasks,
            onSubmitPending, onSubmitCalls, nSubmits>>
client == <<panel, dialog>>
vars == <<server, client>>

\* A reply: the rows (or the boolean) returned, or the error thrown.
\* cascade counts the dependent rows the store removed with the statement,
\* raised is the error the store raised inside the call, if any.
Returned(op, input, out) ==
    [op |-> op, input |-> input, out |-> out, err |-> <<>>, cascade |-> <<0, 0>>,
     raised |-> <<>>]
Thrown(op, input, err) ==
    [op |-> op, input |-> input, out |-> <<>>, err |-> err, cascade |-> <<0, 0>>,
     raised |-> <<>>]

\* Mutant: the catch block logs the store's error and returns an empty result.
rethrow_Swallowed(op, input, e) == [Returned(op, input, <<>>) EXCEPT !.raised = e]

\* catch (error) { console.error(...); throw error; } around a statement on
\* which the store raised e.
rethrow(op, input, e) == [Thrown(op, input, e) EXCEPT !.raised = e]

\* ------------------------------------------------------ validation layer
\* Mutant: title and agent_type are declared as z.string() without min(1).
createTaskInputSchema_AnyString(input) == TRUE

createTaskInputSchema(input) ==
    /\ input.title # ""
    /\ input.agent_type # ""

updateTaskInputSchema(input) ==
    /\ input.id \in Int
    /\ input.status \in TaskStatus \cup {ABSENT}

createExecutionResultInputSchema(input) ==
    /\ input.content_type \in ContentType
    /\ input.execution_time_ms >= 0
    /\ input.status \in ExecutionStatus

createChatMessageInputSchema(input) ==
    /\ input.role \in MessageRole
    /\ input.content # ""

\* A number of a request: its integer part and its fractional part in tenths.
Num(k, f) == [int |-> k, frac |-> f]

\* Mutant: limit is declared as z.number().default(50) only.
limitSchema_AnyNumber(query) == TRUE

\* limit: z.number().int().positive().max(100).default(50), the key may be omitted.
limitSchema(query) ==
    "limit" \in DOMAIN query =>
        /\ query.limit.frac = 0
        /\ query.limit.int > 0
        /\ query.limit.int <= MaxLimit

\* offset: z.number().int().nonnegative().default(0), the key may be omitted.
offsetSchema(query) ==
    "offset" \in DOMAIN query =>
        /\ query.offset.frac = 0
        /\ query.offset.int >= 0

\* What the schema hands to the handler: the defaults stand in for omitted keys.
parsedLimit(query) == IF "limit" \in DOMAIN query THEN query.limit.int ELSE DefaultLimit
parsedOffset(query) == IF "offset" \in DOMAIN query THEN query.offset.int ELSE 0

getTasksQuerySchema(query) ==
    /\ query.status \in TaskStatus \cup {ABSENT}
    /\ limitSchema(query)
    /\ offsetSchema(query)

getTasksQueryParsed(query) ==
    [status |-> query.status, agent_type |-> query.agent_type,
     limit |-> parsedLimit(query), offset |-> parsedOffset(query)]

getChatMessagesQuerySchema(query) ==
    /\ limitSchema(query)
    /\ offsetSchema(query)

getChatMessagesQueryParsed(query) ==
    [task_id |-> query.task_id, limit |-> parsedLimit(query), offset |-> parsedOffset(query)]

\* ------------------------------------------------------------- the store
\* SELECT ... FROM tasks WHERE id = ?
selectTask(id) == {t \in tasks : t.id = id}

\* Mutant: the foreign key is not declared, any task_id is accepted.
references_Unchecked(task_id) == TRUE

\* The foreign key of execution_results.task_id and chat_messages.task_id.
references(task_id) == \E t \in tasks : t.id = task_id

\* Mutant: the reference is declared without onDelete: 'cascade'.
cascadeKeep_NoCascade(rows, id) == rows

\* Mutant: the cascade is a separate statement that has removed only the
\* oldest dependent so far.
cascadeKeep_OldestOnly(rows, id) ==
    {r \in rows : r.task_id # id \/ \E o \in rows : o.task_id = id /\ o.id < r.id}

\* Mutant: the reference is declared with onDelete: 'set null', the dependents
\* of a deleted Task stay and lose their owner.
cascadeKeep_SetNull(rows, id) ==
    {IF r.task_id = id THEN [r EXCEPT !.task_id = 0] ELSE r : r \in rows}

\* Mutant: the cascade is not restricted to the deleted Task's dependents.
cascadeKeep_Nothing(rows, id) == {}

\* ON DELETE CASCADE: the dependents that survive the deletion of task id.
cascadeKeep(rows, id) == {r \in rows : r.task_id # id}

\* ------------------------------------------------------------- handlers
\* One more request or clock tick of the bounded run.
step ==
    /\ nSteps < MaxSteps
    /\ nSteps' = nSteps + 1

\* The two clocks advance on their own, and never run backwards.
TickDb ==
    /\ step
    /\ dbClock' = dbClock + 1
    /\ UNCHANGED <<store, seqs, appClock, pending, resp>>

TickApp ==
    /\ step
    /\ appClock' = appClock + 1
    /\ UNCHANGED <<store, seqs, dbClock, pending, resp>>

\* A request the validation layer refuses never reaches its handler.
reject(op, input) ==
    /\ step
    /\ resp' = Thrown(op, input, <<"ValidationError">>)
    /\ UNCHANGED <<store, seqs, clocks, pending>>

\* Mutant: updated_at is taken from the server's clock, not from defaultNow().
insertedTask_AppClock(input) ==
    [id |-> taskSeq + 1,
     title |-> input.title,
     description |-> input.description,
     status |-> "pending",
     agent_type |-> input.agent_type,
     created_at |-> dbClock,
     updated_at |-> appClock]

\* Mutant: the id is the number of Tasks plus one, not the next serial value.
insertedTask_CountId(input) ==
    [id |-> Cardinality(tasks) + 1,
     title |-> input.title,
     description |-> input.description,
     status |-> "pending",
     agent_type |-> input.agent_type,
     created_at |-> dbClock,
     updated_at |-> dbClock]

insertedTask(input) ==
    [id |-> taskSeq + 1,
     title |-> input.title,
     description |-> input.description,
     status |-> "pending",
     agent_type |-> input.agent_type,
     created_at |-> dbClock,
     updated_at |-> dbClock]

createTask(input) ==
    /\ step
    /\ taskSeq < MaxTasks
    /\ taskSeq' = taskSeq + 1
    /\ tasks' = tasks \cup {insertedTask(input)}
    /\ resp' = Returned("createTask", input, <<insertedTask(input)>>)
    /\ UNCHANGED <<executionResults, chatMessages, resultSeq, messageSeq, clocks, pending>>

\* Mutant: every column is written, a key the input lacks as its empty value.
updatedTask_WritesAll(t, input) ==
    [id |-> t.id,
     title |-> IF input.title # ABSENT THEN input.title ELSE t.title,
     description |-> IF input.description # ABSENT THEN input.description ELSE NULL,
     status |-> IF input.status # ABSENT THEN input.status ELSE "pending",
     agent_type |-> IF input.agent_type # ABSENT THEN input.agent_type ELSE t.agent_type,
     created_at |-> t.created_at,
     updated_at |-> appClock]

\* Mutant: description is tested for truthiness, so null counts as not given.
updatedTask_NullIsAbsent(t, input) ==
    [id |-> t.id,
     title |-> IF input.title # ABSENT THEN input.title ELSE t.title,
     description |-> IF input.description # ABSENT /\ input.description # NULL
                     THEN input.description ELSE t.description,
     status |-> IF input.status # ABSENT THEN input.status ELSE t.status,
     agent_type |-> IF input.agent_type # ABSENT THEN input.agent_type ELSE t.agent_type,
     created_at |-> t.created_at,
     updated_at |-> appClock]

\* The row after UPDATE ... SET updateData: only the keys put into updateData.
updatedTask(t, input) ==
    [id |-> t.id,
     title |-> IF input.title # ABSENT THEN input.title ELSE t.title,
     description |-> IF input.description # ABSENT THEN input.description ELSE t.description,
     status |-> IF input.status # ABSENT THEN input.status ELSE t.status,
     agent_type |-> IF input.agent_type # ABSENT THEN input.agent_type ELSE t.agent_type,
     created_at |-> t.created_at,
     updated_at |-> appClock]

\* Mutant: a missing Task is inserted instead of reported (an upsert).
updateTask_Upsert(input) ==
    /\ step
    /\ tasks' = IF selectTask(input.id) = {}
                THEN tasks \cup {[id |-> input.id, title |-> input.title,
                                  description |-> input.description, status |-> input.status,
                                  agent_type |-> input.agent_type,
                                  created_at |-> dbClock, updated_at |-> appClock]}
                ELSE {IF t.id = input.id THEN updatedTask(t, input) ELSE t : t \in tasks}
    /\ resp' = IF selectTask(input.id) = {}
               THEN Returned("updateTask", input, <<>>)
               ELSE Returned("updateTask", input,
                             <<updatedTask(CHOOSE t \in tasks : t.id = input.id, input)>>)
    /\ UNCHANGED <<executionResults, chatMessages, seqs, clocks, pending>>

updateTask(input) ==
    /\ step
    /\ tasks' = {IF t.id = input.id THEN updatedTask(t, input) ELSE t : t \in tasks}
    /\ resp' = IF selectTask(input.id) = {}
               THEN Returned("updateTask", input, <<>>)
               ELSE Returned("updateTask", input,
                             <<updatedTask(CHOOSE t \in tasks : t.id = input.id, input)>>)
    /\ UNCHANGED <<executionResults, chatMessages, seqs, clocks, pending>>

\* Mutant: the handler answers true without looking at rowCount.
deleteTask_AlwaysTrue(id) ==
    /\ step
    /\ tasks' = {t \in tasks : t.id # id}
    /\ executionResults' = cascadeKeep(executionResults, id)
    /\ chatMessages' = cascadeKeep(chatMessages, id)
    /\ resp' = Returned("deleteTask", id, <<TRUE>>)
    /\ UNCHANGED <<seqs, clocks, pending>>

deleteTask(id) ==
    /\ step
    /\ tasks' = {t \in tasks : t.id # id}
    /\ executionResults' = cascadeKeep(executionResults, id)
    /\ chatMessages' = cascadeKeep(chatMessages, id)
    /\ resp' = [Returned("deleteTask", id, <<Cardinality(selectTask(id)) > 0>>)
                  EXCEPT !.cascade =
                      <<Cardinality(executionResults \ cascadeKeep(executionResults, id)),
                        Cardinality(chatMessages \ cascadeKeep(chatMessages, id))>>]
    /\ UNCHANGED <<seqs, clocks, pending>>

insertedExecutionResult(input) ==
    [id |-> resultSeq + 1,
     task_id |-> input.task_id,
     content |-> input.content,
     content_type |-> input.content_type,
     execution_time_ms |-> input.execution_time_ms,
     status |-> input.status,
     error_message |-> input.error_message,
     created_at |-> dbClock]

\* Mutant: the handler inserts without looking the Task up first.
createExecutionResult_select_NoCheck(input) ==
    /\ step
    /\ pendingResults' = pendingResults \cup {input}
    /\ UNCHANGED <<store, seqs, clocks, pendingMessages, resp>>

\* First statement of createExecutionResult: the existence check.
createExecutionResult_select(input) ==
    /\ step
    /\ IF selectTask(input.task_id) = {}
       THEN /\ resp' = Thrown("createExecutionResult", input,
                              <<"Error", "Task does not exist", input.task_id>>)
            /\ UNCHANGED pendingResults
       ELSE /\ pendingResults' = pendingResults \cup {input}
            /\ UNCHANGED resp
    /\ UNCHANGED <<store, seqs, clocks, pendingMessages>>

\* Second statement of createExecutionResult: the insert, under the foreign key.
createExecutionResult_insert(input) ==
    /\ input \in pendingResults
    /\ pendingResults' = pendingResults \ {input}
    /\ resultSeq' = resultSeq + 1
    /\ IF references(input.task_id)
       THEN /\ executionResults' = executionResults \cup {insertedExecutionResult(input)}
            /\ resp' = Returned("createExecutionResult", input,
                                <<insertedExecutionResult(input)>>)
       ELSE /\ resp' = rethrow("createExecutionResult", input, <<"ForeignKeyViolation">>)
            /\ UNCHANGED executionResults
    /\ UNCHANGED <<tasks, chatMessages, taskSeq, messageSeq, clocks, pendingMessages, nSteps>>

insertedChatMessage(input) ==
    [id |-> messageSeq + 1,
     task_id |-> input.task_id,
     role |-> input.role,
     content |-> input.content,
     agent_name |-> input.agent_name,
     timestamp |-> dbClock]

\* First statement of createChatMessage: the existence check.
createChatMessage_select(input) ==
    /\ step
    /\ IF selectTask(input.task_id) = {}
       THEN /\ resp' = Thrown("createChatMessage", input,
                              <<"Error", "Task not found", input.task_id>>)
            /\ UNCHANGED pendingMessages
       ELSE /\ pendingMessages' = pendingMessages \cup {input}
            /\ UNCHANGED resp
    /\ UNCHANGED <<store, seqs, clocks, pendingResults>>

\* Second statement of createChatMessage: the insert, under the foreign key.
createChatMessage_insert(input) ==
    /\ input \in pendingMessages
    /\ pendingMessages' = pendingMessages \ {input}
    /\ messageSeq' = messageSeq + 1
    /\ IF references(input.task_id)
       THEN /\ chatMessages' = chatMessages \cup {insertedChatMessage(input)}
            /\ resp' = Returned("createChatMessage", input, <<insertedChatMessage(input)>>)
       ELSE /\ resp' = rethrow("createChatMessage", input, <<"ForeignKeyViolation">>)
            /\ UNCHANGED chatMessages
    /\ UNCHANGED <<tasks, executionResults, taskSeq, resultSeq, clocks, pendingResults, nSteps>>

\* ---------------------------------------------------------------- reads
\* The sequences that list every row of the set rows exactly once.
RECURSIVE Orderings(_)
Orderings(rows) ==
    IF rows = {} THEN {<<>>}
    ELSE UNION {{<<r>> \o s : s \in Orderings(rows \ {r})} : r \in rows}

\* ORDER BY key DESC / ASC: rows with equal keys come in any order.
orderByDesc(rows, key) ==
    {s \in Orderings(rows) : \A i \in 1..(Len(s) - 1) : s[i][key] >= s[i + 1][key]}

orderByAsc(rows, key) ==
    {s \in Orderings(rows) : \A i \in 1..(Len(s) - 1) : s[i][key] <= s[i + 1][key]}

\* LIMIT limit OFFSET offset
limitOffset(s, limit, offset) == SubSeq(s, offset + 1, Min(Len(s), offset + limit))

\* The WHERE clause getTasks builds: a condition for each truthy filter.
getTasksConditions(query, t) ==
    /\ Truthy(query.status) => t.status = query.status
    /\ Truthy(query.agent_type) => t.agent_type = query.agent_type

\* Mutant: asc(created_at) in place of desc(created_at).
getTasksOrder_Asc(rows) == orderByAsc(rows, "created_at")

getTasksOrder(rows) == orderByDesc(rows, "created_at")

getTasks(query) ==
    {limitOffset(s, query.limit, query.offset) :
        s \in getTasksOrder({t \in tasks : getTasksConditions(query, t)})}

\* Mutant: the WHERE clause is left out, results[0] is whatever row comes first.
getTaskById_AnyRow(id) ==
    IF tasks = {} THEN <<>> ELSE <<CHOOSE t \in tasks : TRUE>>

\* The row as a one-element sequence, or the empty sequence for null.
getTaskById(id) ==
    IF selectTask(id) = {} THEN <<>> ELSE <<CHOOSE t \in tasks : t.id = id>>

\* Mutant: the WHERE clause on task_id is left out.
getExecutionResults_AllTasks(query) == orderByDesc(executionResults, "created_at")

\* Mutant: only the newest result is answered (.limit(1)).
getExecutionResults_Newest(query) ==
    {limitOffset(s, 1, 0) :
        s \in orderByDesc({r \in executionResults : r.task_id = query.task_id}, "created_at")}

getExecutionResults(query) ==
    orderByDesc({r \in executionResults : r.task_id = query.task_id}, "created_at")

\* Mutant: desc(timestamp) in place of asc(timestamp).
getChatMessages_Desc(query) ==
    {limitOffset(s, query.limit, query.offset) :
        s \in orderByDesc({m \in chatMessages : m.task_id = query.task_id}, "timestamp")}

getChatMessages(query) ==
    {limitOffset(s, query.limit, query.offset) :
        s \in orderByAsc({m \in chatMessages : m.task_id = query.task_id}, "timestamp")}

\* ------------------------------------------------------------ the router
appRouter_createTask(input) ==
    IF createTaskInputSchema(input) THEN createTask(input) ELSE reject("createTask", input)

appRouter_updateTask(input) ==
    IF updateTaskInputSchema(input) THEN updateTask(input) ELSE reject("updateTask", input)

appRouter_deleteTask(id) == deleteTask(id)

appRouter_createExecutionResult(input) ==
    IF createExecutionResultInputSchema(input)
    THEN createExecutionResult_select(input)
    ELSE reject("createExecutionResult", input)

appRouter_createChatMessage(input) ==
    IF createChatMessageInputSchema(input)
    THEN createChatMessage_select(input)
    ELSE reject("createChatMessage", input)

\* A read answers from the store and leaves it alone.
reply(op, input, out) ==
    /\ step
    /\ resp' = Returned(op, input, out)
    /\ UNCHANGED <<store, seqs, clocks, pending>>

appRouter_getTasks(query) ==
    /\ nSteps < MaxSteps
    /\ IF getTasksQuerySchema(query)
       THEN \E r \in getTasks(getTasksQueryParsed(query)) : reply("getTasks", query, r)
       ELSE reject("getTasks", query)

appRouter_getTaskById(id) == reply("getTaskById", id, getTaskById(id))

appRouter_getExecutionResults(query) ==
    /\ nSteps < MaxSteps
    /\ \E r \in getExecutionResults(query) : reply("getExecutionResults", query, r)

appRouter_getChatMessages(query) ==
    /\ nSteps < MaxSteps
    /\ IF getChatMessagesQuerySchema(query)
       THEN \E r \in getChatMessages(getChatMessagesQueryParsed(query)) :
                reply("getChatMessages", query, r)
       ELSE reject("getChatMessages", query)

\* ------------------------------------------------------- storage failures
\* The store raises e on the only, or the first, statement of a handler:
\* nothing is written and the handler's catch block rethrows.
storageFailure(op, input, e) ==
    /\ step
    /\ resp' = rethrow(op, input, e)
    /\ UNCHANGED <<store, seqs, clocks, pending>>

\* The store raises e on the INSERT of createExecutionResult / createChatMessage,
\* after their existence check went through.
createExecutionResult_insert_fails(input, e) ==
    /\ input \in pendingResults
    /\ pendingResults' = pendingResults \ {input}
    /\ resp' = rethrow("createExecutionResult", input, e)
    /\ UNCHANGED <<store, seqs, clocks, pendingMessages, nSteps>>

createChatMessage_insert_fails(input, e) ==
    /\ input \in pendingMessages
    /\ pendingMessages' = pendingMessages \ {input}
    /\ resp' = rethrow("createChatMessage", input, e)
    /\ UNCHANGED <<store, seqs, clocks, pendingResults, nSteps>>

\* ---------------------------------------------------------------- inputs
CreateTaskInputs ==
    {[title |-> "t1", description |-> "d1", agent_type |-> "code-generator"],
     [title |-> "t2", description |-> NULL, agent_type |-> "writer"],
     [title |-> "", description |-> "d1", agent_type |-> "writer"],
     [title |-> "t1", description |-> NULL, agent_type |-> ""]}

UpdateTaskPatches ==
    {[title |-> ABSENT, description |-> ABSENT, status |-> ABSENT, agent_type |-> ABSENT],
     [title |-> ABSENT, description |-> ABSENT, status |-> "running", agent_type |-> ABSENT],
     [title |-> ABSENT, description |-> NULL, status |-> ABSENT, agent_type |-> ABSENT],
     [title |-> "", description |-> ABSENT, status |-> ABSENT, agent_type |-> ""],
     [title |-> "t3", description |-> "d2", status |-> "completed", agent_type |-> "writer"]}

UpdateTaskInputs ==
    {[id |-> i, title |-> p.title, description |-> p.description, status |-> p.status,
      agent_type |-> p.agent_type] : i \in TaskIds, p \in UpdateTaskPatches}

ExecutionResultPayloads ==
    {[content |-> "done", content_type |-> "text", execution_time_ms |-> 120,
      status |-> "success", error_message |-> NULL]}

ExecutionResultInputs ==
    {[task_id |-> i, content |-> p.content, content_type |-> p.content_type,
      execution_time_ms |-> p.execution_time_ms, status |-> p.status,
      error_message |-> p.error_message] : i \in TaskIds, p \in ExecutionResultPayloads}
    \cup
    {[task_id |-> 1, content |-> "done", content_type |-> "text", execution_time_ms |-> -1,
      status |-> "success", error_message |-> NULL],
     [task_id |-> 1, content |-> "done", content_type |-> "html", execution_time_ms |-> 120,
      status |-> "success", error_message |-> NULL],
     [task_id |-> 1, content |-> "done", content_type |-> "text", execution_time_ms |-> 120,
      status |-> "unknown", error_message |-> NULL]}

ChatMessagePayloads ==
    {[role |-> "user", content |-> "please review", agent_name |-> NULL]}

ChatMessageInputs ==
    {[task_id |-> i, role |-> p.role, content |-> p.content, agent_name |-> p.agent_name] :
        i \in TaskIds, p \in ChatMessagePayloads}
    \cup
    {[task_id |-> 1, role |-> "user", content |-> "", agent_name |-> NULL]}

GetTasksQueries ==
    [status : {ABSENT, "pending", "running"},
     agent_type : {ABSENT, "", "code-generator", "writer"},
     limit : {1, 2, 50}, offset : {0, 1}]

GetExecutionResultsQueries == [task_id : TaskIds]

GetChatMessagesQueries == [task_id : TaskIds, limit : {1, 2, 50}, offset : {0, 1, 2}]

\* Requests as they reach the router: limit and offset may be omitted, out of
\* range or fractional.
RawLimits == {Num(0, 0), Num(1, 0), Num(2, 0), Num(MaxLimit, 0), Num(MaxLimit + 1, 0), Num(1, 5)}
RawOffsets == {Num(-1, 0), Num(0, 0), Num(2, 0), Num(4, 0), Num(MaxRows, 0), Num(0, 5)}

GetTasksRequests ==
    UNION {{[status |-> st, agent_type |-> at],
            [status |-> st, agent_type |-> at, limit |-> l],
            [status |-> st, agent_type |-> at, offset |-> o],
            [status |-> st, agent_type |-> at, limit |-> l, offset |-> o]} :
        st \in {ABSENT, "pending"}, at \in {ABSENT, "writer"},
        l \in RawLimits, o \in RawOffsets}

GetChatMessagesRequests ==
    UNION {{[task_id |-> i],
            [task_id |-> i, limit |-> l],
            [task_id |-> i, offset |-> o],
            [task_id |-> i, limit |-> l, offset |-> o]} :
        i \in TaskIds, l \in RawLimits, o \in RawOffsets}

\* ------------------------------------------------------------ the system
\* The useState initial values of App, ExecutionPanel, TaskPanel and
\* CreateTaskDialog.
emptyFormData == [title |-> "", description |-> NULL, agent_type |-> ""]

InitClient ==
    /\ selectedTask = <<>>
    /\ panelExecutionResults = <<>>
    /\ panelChatMessages = <<>>
    /\ isLoadingResults = FALSE
    /\ isLoadingMessages = FALSE
    /\ loads = {}
    /\ nLoads = 0
    /\ loadErrors = 0
    /\ formData = emptyFormData
    /\ isLoading = FALSE
    /\ isCreateDialogOpen = FALSE
    /\ panelTasks = <<>>
    /\ onSubmitPending = <<>>
    /\ onSubmitCalls = <<>>
    /\ nSubmits = 0

Init ==
    /\ tasks = {}
    /\ executionResults = {}
    /\ chatMessages = {}
    /\ taskSeq = 0
    /\ resultSeq = 0
    /\ messageSeq = 0
    /\ dbClock = 0
    /\ appClock = 0
    /\ pendingResults = {}
    /\ pendingMessages = {}
    /\ resp = Returned("none", 0, <<>>)
    /\ nSteps = 0
    /\ InitClient

Next ==
    \/ /\ UNCHANGED client
       /\ \E input \in CreateTaskInputs : appRouter_createTask(input)
    \/ /\ UNCHANGED client
       /\ \E input \in UpdateTaskInputs : appRouter_updateTask(input)
    \/ /\ UNCHANGED client
       /\ \E id \in TaskIds : appRouter_deleteTask(id)
    \/ /\ UNCHANGED client
       /\ \E input \in ExecutionResultInputs : appRouter_createExecutionResult(input)
    \/ /\ UNCHANGED client
       /\ \E input \in pendingResults : createExecutionResult_insert(input)
    \/ /\ UNCHANGED client
       /\ \E input \in ChatMessageInputs : appRouter_createChatMessage(input)
    \/ /\ UNCHANGED client
       /\ \E input \in pendingMessages : createChatMessage_insert(input)
    \/ /\ UNCHANGED client
       /\ TickDb
    \/ /\ UNCHANGED client
       /\ TickApp

Spec == Init /\ [][Next]_vars

\* ------------------------------------------------- the reads on a seeded store
\* The store as the handler tests seed it: two Tasks, then n ExecutionResults
\* and n ChatMessages inserted one after another, the store's clock advancing
\* (gaps[i] = 1) or not (gaps[i] = 0) before the i-th insert; the rows belong
\* all to Task 1, or in turn to Task 1 and Task 2.  A read's answer depends on
\* the store alone, so the run that follows the seeding is one request long.
RECURSIVE seedTime(_, _)
seedTime(gaps, i) == IF i = 0 THEN 0 ELSE seedTime(gaps, i - 1) + gaps[i]

seedOwner(own, i) == IF own = "one" THEN 1 ELSE 2 - (i % 2)

seededTasks ==
    {[id |-> 1, title |-> "t1", description |-> "d1", status |-> "pending",
      agent_type |-> "code-generator", created_at |-> 0, updated_at |-> 0],
     [id |-> 2, title |-> "t2", description |-> NULL, status |-> "pending",
      agent_type |-> "writer", created_at |-> 0, updated_at |-> 0]}

seededExecutionResults(n, gaps, own) ==
    {[id |-> i, task_id |-> seedOwner(own, i), content |-> "done", content_type |-> "text",
      execution_time_ms |-> 120, status |-> "success", error_message |-> NULL,
      created_at |-> seedTime(gaps, i)] : i \in 1..n}

seededChatMessages(n, gaps, own) ==
    {[id |-> i, task_id |-> seedOwner(own, i), role |-> "user", content |-> "please review",
      agent_name |-> NULL, timestamp |-> seedTime(gaps, i)] : i \in 1..n}

InitReads ==
    \E n \in 0..MaxRows : \E gaps \in [1..n -> {0, 1}] : \E own \in {"one", "both"} :
        /\ tasks = seededTasks
        /\ executionResults = seededExecutionResults(n, gaps, own)
        /\ chatMessages = seededChatMessages(n, gaps, own)
        /\ taskSeq = 2
        /\ resultSeq = n
        /\ messageSeq = n
        /\ dbClock = seedTime(gaps, n)
        /\ appClock = 0
        /\ pendingResults = {}
        /\ pendingMessages = {}
        /\ resp = Returned("none", 0, <<>>)
        /\ nSteps = MaxSteps - 1
        /\ InitClient

NextReads ==
    \/ /\ UNCHANGED client
       /\ \E query \in GetTasksRequests : appRouter_getTasks(query)
    \/ /\ UNCHANGED client
       /\ \E id \in TaskIds : appRouter_getTaskById(id)
    \/ /\ UNCHANGED client
       /\ \E query \in GetExecutionResultsQueries : appRouter_getExecutionResults(query)
    \/ /\ UNCHANGED client
       /\ \E query \in GetChatMessagesRequests : appRouter_getChatMessages(query)

ReadSpec == InitReads /\ [][NextReads]_vars

\* ------------------------------------------- one request on a failing store
StorageErrors == {<<"ConnectionLost">>, <<"StatementTimeout">>}

\* The seeded store raises an error on a statement of the one request of the
\* run: on its only or first statement, or, for the two handlers that check
\* and then insert, on the insert after a check that went through.
NextFail ==
    \/ /\ UNCHANGED client
       /\ \E input \in CreateTaskInputs : \E e \in StorageErrors :
             createTaskInputSchema(input) /\ storageFailure("createTask", input, e)
    \/ /\ UNCHANGED client
       /\ \E input \in UpdateTaskInputs : \E e \in StorageErrors :
             updateTaskInputSchema(input) /\ storageFailure("updateTask", input, e)
    \/ /\ UNCHANGED client
       /\ \E id \in TaskIds : \E e \in StorageErrors : storageFailure("deleteTask", id, e)
    \/ /\ UNCHANGED client
       /\ \E input \in ExecutionResultInputs : \E e \in StorageErrors :
             createExecutionResultInputSchema(input)
                 /\ storageFailure("createExecutionResult", input, e)
    \/ /\ UNCHANGED client
       /\ \E input \in ExecutionResultInputs : appRouter_createExecutionResult(input)
    \/ /\ UNCHANGED client
       /\ \E input \in pendingResults : \E e \in StorageErrors :
             createExecutionResult_insert_fails(input, e)
    \/ /\ UNCHANGED client
       /\ \E input \in ChatMessageInputs : \E e \in StorageErrors :
             createChatMessageInputSchema(input) /\ storageFailure("createChatMessage", input, e)
    \/ /\ UNCHANGED client
       /\ \E input \in ChatMessageInputs : appRouter_createChatMessage(input)
    \/ /\ UNCHANGED client
       /\ \E input \in pendingMessages : \E e \in StorageErrors :
             createChatMessage_insert_fails(input, e)
    \/ /\ UNCHANGED client
       /\ \E query \in GetTasksRequests : \E e \in StorageErrors :
             getTasksQuerySchema(query) /\ storageFailure("getTasks", query, e)
    \/ /\ UNCHANGED client
       /\ \E id \in TaskIds : \E e \in StorageErrors : storageFailure("getTaskById", id, e)
    \/ /\ UNCHANGED client
       /\ \E query \in GetExecutionResultsQueries : \E e \in StorageErrors :
             storageFailure("getExecutionResults", query, e)
    \/ /\ UNCHANGED client
       /\ \E query \in GetChatMessagesRequests : \E e \in StorageErrors :
             getChatMessagesQuerySchema(query) /\ storageFailure("getChatMessages", query, e)

FailSpec == InitReads /\ [][NextFail]_vars

\* ------------------------------------------------------- the ExecutionPanel
\* A selection or a refresh click issues two queries for the selected Task;
\* both carry n, the number of the user action that issued them.
issuedLoads(id, n) ==
    {[call |-> "getExecutionResults", task_id |-> id, n |-> n],
     [call |-> "getChatMessages", task_id |-> id, n |-> n]}

\* The query loadChatMessages sends.
chatMessagesQuery(id) == [task_id |-> id, limit |-> DefaultLimit, offset |-> 0]

\* useEffect on [selectedTask]: a Task being selected, both loads start.
useEffect(id) ==
    /\ loads' = loads \cup issuedLoads(id, nLoads + 1)
    /\ isLoadingResults' = TRUE
    /\ isLoadingMessages' = TRUE

\* A click on a Task card: App's setSelectedTask(task), then the effect.
\* Selecting the Task that is selected already changes no state.
onTaskSelect(id) ==
    /\ nLoads < MaxLoads
    /\ selectedTask # <<id>>
    /\ nLoads' = nLoads + 1
    /\ selectedTask' = <<id>>
    /\ useEffect(id)
    /\ UNCHANGED <<panelExecutionResults, panelChatMessages, loadErrors, dialog, server>>

\* The refresh button, rendered when a Task is selected.
handleRefresh ==
    /\ nLoads < MaxLoads
    /\ selectedTask # <<>>
    /\ nLoads' = nLoads + 1
    /\ loads' = loads \cup issuedLoads(selectedTask[1], nLoads + 1)
    /\ isLoadingResults' = TRUE
    /\ isLoadingMessages' = TRUE
    /\ UNCHANGED <<selectedTask, panelExecutionResults, panelChatMessages, loadErrors,
                   dialog, server>>

\* The response of a getExecutionResults query arrives: the rest of
\* loadExecutionResults runs, whatever Task is selected by now.
loadExecutionResults_resolved(r) ==
    /\ r.call = "getExecutionResults"
    /\ loads' = loads \ {r}
    /\ panelExecutionResults' \in getExecutionResults([task_id |-> r.task_id])
    /\ isLoadingResults' = FALSE
    /\ UNCHANGED <<selectedTask, panelChatMessages, isLoadingMessages, nLoads, loadErrors,
                   dialog, server>>

\* The query fails: the error is logged and the state keeps what it held.
loadExecutionResults_rejected(r) ==
    /\ r.call = "getExecutionResults"
    /\ loads' = loads \ {r}
    /\ loadErrors' = loadErrors + 1
    /\ isLoadingResults' = FALSE
    /\ UNCHANGED <<selectedTask, panelExecutionResults, panelChatMessages,
                   isLoadingMessages, nLoads, dialog, server>>

loadChatMessages_resolved(r) ==
    /\ r.call = "getChatMessages"
    /\ loads' = loads \ {r}
    /\ panelChatMessages' \in getChatMessages(chatMessagesQuery(r.task_id))
    /\ isLoadingMessages' = FALSE
    /\ UNCHANGED <<selectedTask, panelExecutionResults, isLoadingResults, nLoads, loadErrors,
                   dialog, server>>

loadChatMessages_rejected(r) ==
    /\ r.call = "getChatMessages"
    /\ loads' = loads \ {r}
    /\ loadErrors' = loadErrors + 1
    /\ isLoadingMessages' = FALSE
    /\ UNCHANGED <<selectedTask, panelExecutionResults, panelChatMessages,
                   isLoadingResults, nLoads, dialog, server>>

\* The panel is mounted with no Task selected, over a store in which Task 1
\* and Task 2 own, in turn, the seeded ExecutionResults and ChatMessages.
InitExecutionPanel ==
    /\ tasks = seededTasks
    /\ executionResults = seededExecutionResults(MaxRows - 1, [i \in 1..(MaxRows - 1) |-> 1], "both")
    /\ chatMessages = seededChatMessages(MaxRows - 1, [i \in 1..(MaxRows - 1) |-> 1], "both")
    /\ taskSeq = 2
    /\ resultSeq = MaxRows - 1
    /\ messageSeq = MaxRows - 1
    /\ dbClock = MaxRows - 1
    /\ appClock = 0
    /\ pendingResults = {}
    /\ pendingMessages = {}
    /\ resp = Returned("none", 0, <<>>)
    /\ nSteps = MaxSteps
    /\ InitClient

NextExecutionPanel ==
    \/ \E t \in tasks : onTaskSelect(t.id)
    \/ handleRefresh
    \/ \E r \in loads : loadExecutionResults_resolved(r)
    \/ \E r \in loads : loadExecutionResults_rejected(r)
    \/ \E r \in loads : loadChatMessages_resolved(r)
    \/ \E r \in loads : loadChatMessages_rejected(r)

ExecutionPanelSpec == InitExecutionPanel /\ [][NextExecutionPanel]_vars

\* ----------------------------------------- TaskPanel and CreateTaskDialog
agentTypes == {"code-generator", "data-analyzer", "writer"}

\* What the user can type into the title and the description.
TypedTitles == {"", "t1"}
TypedDescriptions == {"", "d1"}

\* The "New Task" button.
openCreateDialog ==
    /\ ~isCreateDialogOpen
    /\ isCreateDialogOpen' = TRUE
    /\ UNCHANGED <<formData, isLoading, panelTasks, onSubmitPending, onSubmitCalls, nSubmits,
                   panel, server>>

\* onOpenChange(false): the Cancel button (disabled while isLoading), or the
\* Escape key and a click outside the dialog (at any time).
onOpenChange_false ==
    /\ isCreateDialogOpen
    /\ isCreateDialogOpen' = FALSE
    /\ UNCHANGED <<formData, isLoading, panelTasks, onSubmitPending, onSubmitCalls, nSubmits,
                   panel, server>>

\* The three controls of the form, disabled while isLoading.
setFormData(data) ==
    /\ isCreateDialogOpen
    /\ ~isLoading
    /\ formData' = data
    /\ UNCHANGED <<isLoading, isCreateDialogOpen, panelTasks, onSubmitPending, onSubmitCalls,
                   nSubmits, panel, server>>

onChange_title(v) == setFormData([formData EXCEPT !.title = v])

onChange_description(v) ==
    setFormData([formData EXCEPT !.description = IF v = "" THEN NULL ELSE v])

onValueChange_agent_type(v) == setFormData([formData EXCEPT !.agent_type = v])

\* The form's submit event, up to the await: nothing on an empty title or
\* agent_type, else isLoading is set and onSubmit(formData) is called.  While
\* isLoading the submit button and the inputs are disabled, so no submit
\* event reaches the form.
handleSubmit ==
    /\ isCreateDialogOpen
    /\ ~isLoading
    /\ nSubmits < MaxSubmits
    /\ nSubmits' = nSubmits + 1
    /\ IF formData.title = "" \/ formData.agent_type = ""
       THEN UNCHANGED <<isLoading, onSubmitCalls, onSubmitPending>>
       ELSE /\ isLoading' = TRUE
            /\ onSubmitCalls' = Append(onSubmitCalls, formData)
            /\ onSubmitPending' = <<formData>>
    /\ UNCHANGED <<formData, isCreateDialogOpen, panelTasks, panel, server>>

\* handleSubmit after the await, onSubmit having resolved: the form is reset,
\* then the finally block.
handleSubmit_resolved ==
    /\ onSubmitPending # <<>>
    /\ onSubmitPending' = <<>>
    /\ formData' = emptyFormData
    /\ isLoading' = FALSE
    /\ UNCHANGED <<onSubmitCalls, nSubmits, panel>>

\* Mutant: setIsLoading(false) follows the reset inside the try block, and
\* there is no finally block.
handleSubmit_rejected_NoFinally ==
    /\ onSubmitPending # <<>>
    /\ onSubmitPending' = <<>>
    /\ UNCHANGED <<formData, isLoading, onSubmitCalls, nSubmits, panel>>

\* handleSubmit after the await, onSubmit having rejected: the catch block,
\* then the finally block.
handleSubmit_rejected ==
    /\ onSubmitPending # <<>>
    /\ onSubmitPending' = <<>>
    /\ isLoading' = FALSE
    /\ UNCHANGED <<formData, onSubmitCalls, nSubmits, panel>>

\* The dialog under any parent: the promise onSubmit returned resolves or
\* rejects, the parent's state staying as it is.
onSubmit_resolves ==
    /\ handleSubmit_resolved
    /\ UNCHANGED <<isCreateDialogOpen, panelTasks, server>>

onSubmit_rejects ==
    /\ handleSubmit_rejected
    /\ UNCHANGED <<isCreateDialogOpen, panelTasks, server>>

NextCreateTaskDialog ==
    \/ openCreateDialog
    \/ onOpenChange_false
    \/ \E v \in TypedTitles : onChange_title(v)
    \/ \E v \in TypedDescriptions : onChange_description(v)
    \/ \E v \in agentTypes : onValueChange_agent_type(v)
    \/ handleSubmit
    \/ onSubmit_resolves
    \/ onSubmit_rejects

CreateTaskDialogSpec == Init /\ [][NextCreateTaskDialog]_vars

\* TaskPanel passes handleCreateTask as onSubmit.  The createTask request
\* succeeds: the new Task is put first in the list, the dialog is closed and
\* the promise resolves.
handleCreateTask_created ==
    /\ onSubmitPending # <<>>
    /\ appRouter_createTask(onSubmitPending[1])
    /\ resp'.err = <<>>
    /\ panelTasks' = resp'.out \o panelTasks
    /\ isCreateDialogOpen' = FALSE
    /\ handleSubmit_resolved

\* The createTask request fails: handleCreateTask catches and logs the error
\* and returns, so the promise it gave the dialog resolves as well.
handleCreateTask_failed(e) ==
    /\ onSubmitPending # <<>>
    /\ storageFailure("createTask", onSubmitPending[1], e)
    /\ UNCHANGED <<panelTasks, isCreateDialogOpen>>
    /\ handleSubmit_resolved

NextTaskPanel ==
    \/ openCreateDialog
    \/ onOpenChange_false
    \/ \E v \in TypedTitles : onChange_title(v)
    \/ \E v \in TypedDescriptions : onChange_description(v)
    \/ \E v \in agentTypes : onValueChange_agent_type(v)
    \/ handleSubmit
    \/ handleCreateTask_created
    \/ \E e \in StorageErrors : handleCreateTask_failed(e)

TaskPanelSpec == Init /\ [][NextTaskPanel]_vars

\* =================================================================== claims

\* C1: deleteTask of an existing Task T, whatever results and messages T owns,
\* returns true, and right after it getTaskById(T.id) is absent and
\* getExecutionResults / getChatMessages for T.id answer the empty sequence.
C1_DeleteRemovesTaskAndDependents ==
    [][\A id \in TaskIds :
          (selectTask(id) # {} /\ resp'.op = "deleteTask" /\ resp'.input = id
              /\ deleteTask(id)) =>
              /\ resp'.out = <<TRUE>>
              /\ getTaskById(id)' = <<>>
              /\ getExecutionResults([task_id |-> id])' = {<<>>}
              /\ \A q \in GetChatMessagesQueries :
                    q.task_id = id => getChatMessages(q)' = {<<>>}]_vars

\* A deleteTask that returned true and took results and messages with it.
C1_Witness ==
    /\ resp.op = "deleteTask"
    /\ resp.out = <<TRUE>>
    /\ resp.cascade[1] >= 1
    /\ resp.cascade[2] >= 1

\* C2: every persisted ExecutionResult and ChatMessage references a Task that
\* exists, in every reachable state, also when a deleteTask runs between the
\* existence check and the insert of a create handler.
C2_ReferentialIntegrity ==
    /\ \A r \in executionResults : \E t \in tasks : t.id = r.task_id
    /\ \A m \in chatMessages : \E t \in tasks : t.id = m.task_id

\* An insert that came after the deletion of the Task its check had found,
\* while other dependents are persisted.
C2_Witness ==
    /\ resp.op \in {"createExecutionResult", "createChatMessage"}
    /\ resp.err = <<"ForeignKeyViolation">>
    /\ executionResults \cup chatMessages # {}

\* C3: createExecutionResult and createChatMessage for a task_id without a Task
\* throw an error that carries the task_id, and the persisted state is unchanged.
C3_MissingTaskIsRefused ==
    [][/\ \A input \in ExecutionResultInputs :
            (selectTask(input.task_id) = {} /\ createExecutionResult_select(input)) =>
                /\ resp'.op = "createExecutionResult"
                /\ Len(resp'.err) = 3 /\ resp'.err[3] = input.task_id
                /\ UNCHANGED <<store, seqs, pending>>
       /\ \A input \in ChatMessageInputs :
            (selectTask(input.task_id) = {} /\ createChatMessage_select(input)) =>
                /\ resp'.op = "createChatMessage"
                /\ Len(resp'.err) = 3 /\ resp'.err[3] = input.task_id
                /\ UNCHANGED <<store, seqs, pending>>]_vars

\* A create call refused for a missing Task while other Tasks and dependents exist.
C3_Witness ==
    /\ resp.op \in {"createExecutionResult", "createChatMessage"}
    /\ Len(resp.err) = 3
    /\ resp.err[3] = resp.input.task_id
    /\ tasks # {}
    /\ executionResults \cup chatMessages # {}

\* C4: createTask on a valid input returns a Task with status pending,
\* created_at = updated_at and the input's title, description and agent_type,
\* and the Task read back by its id is the returned record.
C4_CreateTaskResult ==
    (resp.op = "createTask" /\ createTaskInputSchema(resp.input)) =>
        /\ resp.err = <<>>
        /\ Len(resp.out) = 1
        /\ resp.out[1].status = "pending"
        /\ resp.out[1].created_at = resp.out[1].updated_at
        /\ resp.out[1].title = resp.input.title
        /\ resp.out[1].description = resp.input.description
        /\ resp.out[1].agent_type = resp.input.agent_type
        /\ getTaskById(resp.out[1].id) = <<resp.out[1]>>

\* A Task created with a null description when the two clocks differ.
C4_Witness ==
    /\ resp.op = "createTask"
    /\ Len(resp.out) = 1
    /\ resp.input.description = NULL
    /\ dbClock # appClock

\* The queries of C5: no filter, offset 0, a limit that admits every Task.
UnfilteredQueries ==
    {q \in GetTasksQueries :
        /\ q.status = ABSENT /\ q.agent_type = ABSENT
        /\ q.offset = 0 /\ q.limit >= Cardinality(tasks)}

ReverseCreationOrder(r) == \A i \in 1..(Len(r) - 1) : r[i].id > r[i + 1].id

Max(a, b) == IF a >= b THEN a ELSE b

\* C6 as claimed: with both a status and an agent_type filter getTasks returns
\* exactly the Tasks matching both, within the limit/offset window.
C6_BothFiltersApply ==
    \A q \in GetTasksQueries :
        (q.status # ABSENT /\ q.agent_type # ABSENT) =>
            \A r \in getTasks(q) :
                LET both == {t \in tasks : t.status = q.status /\ t.agent_type = q.agent_type}
                IN  /\ \A i \in 1..Len(r) : r[i] \in both
                    /\ Len(r) = Min(q.limit, Max(0, Cardinality(both) - q.offset))

\* The row of Task id in the next state.
After(id) == CHOOSE u \in tasks' : u.id = id

\* C7: updateTask on an existing Task keeps every field of title, description,
\* status, agent_type that the input lacks, never changes id or created_at,
\* and modifies no other Task, no ExecutionResult and no ChatMessage.
C7_UpdateChangesOnlyGivenFields ==
    [][\A input \in UpdateTaskInputs : \A t \in tasks :
          (t.id = input.id /\ resp'.op = "updateTask" /\ resp'.input = input
              /\ updateTask(input)) =>
              /\ {u \in tasks' : u.id = t.id} # {}
              /\ After(t.id).created_at = t.created_at
              /\ input.title = ABSENT => After(t.id).title = t.title
              /\ input.description = ABSENT => After(t.id).description = t.description
              /\ input.status = ABSENT => After(t.id).status = t.status
              /\ input.agent_type = ABSENT => After(t.id).agent_type = t.agent_type
              /\ {u.id : u \in tasks'} = {u.id : u \in tasks}
              /\ \A o \in tasks : o.id # t.id => o \in tasks'
              /\ executionResults' = executionResults
              /\ chatMessages' = chatMessages]_vars

\* An update that gave only some fields, beside another Task and a dependent.
C7_Witness ==
    /\ resp.op = "updateTask"
    /\ Len(resp.out) = 1
    /\ resp.input.title = ABSENT /\ resp.input.agent_type = ABSENT
    /\ resp.input.status # ABSENT
    /\ resp.out[1].description # NULL
    /\ Cardinality(tasks) = 2
    /\ executionResults \cup chatMessages # {}

\* C8 as claimed: every successful updateTask, also one that gives nothing but
\* the id, leaves updated_at strictly greater than it was.
C8_UpdatedAtStrictlyGrows ==
    [][\A input \in UpdateTaskInputs : \A t \in tasks :
          (t.id = input.id /\ resp'.op = "updateTask" /\ resp'.input = input
              /\ updateTask(input)) =>
              After(t.id).updated_at > t.updated_at]_vars

\* C9: updateTask with {id, description: null} sets description to null and
\* leaves title, status, agent_type and created_at; with description absent
\* the prior description, null or text, is kept.
C9_NullDescriptionIsNotAbsent ==
    [][\A input \in UpdateTaskInputs : \A t \in tasks :
          (t.id = input.id /\ resp'.op = "updateTask" /\ resp'.input = input
              /\ updateTask(input)) =>
              /\ input.description = NULL => After(t.id).description = NULL
              /\ (/\ input.description = NULL
                  /\ input.title = ABSENT /\ input.status = ABSENT
                  /\ input.agent_type = ABSENT) =>
                     /\ After(t.id).title = t.title
                     /\ After(t.id).status = t.status
                     /\ After(t.id).agent_type = t.agent_type
                     /\ After(t.id).created_at = t.created_at
              /\ input.description = ABSENT =>
                     After(t.id).description = t.description]_vars

\* An update with nothing but a null description, on the Task created with the
\* description "d1" and updated before.
C9_Witness ==
    /\ resp.op = "updateTask"
    /\ Len(resp.out) = 1
    /\ resp.input.description = NULL
    /\ resp.input.title = ABSENT /\ resp.input.status = ABSENT
    /\ resp.input.agent_type = ABSENT
    /\ resp.out[1].description = NULL
    /\ resp.out[1].title = "t1"
    /\ resp.out[1].status = "running"

\* C10: updateTask with an id without a Task returns null, throws nothing and
\* leaves every Task, ExecutionResult and ChatMessage as it was.
C10_UpdateOfMissingTask ==
    [][\A input \in UpdateTaskInputs :
          (selectTask(input.id) = {} /\ resp'.op = "updateTask" /\ resp'.input = input
              /\ updateTask(input)) =>
              /\ resp'.op = "updateTask"
              /\ resp'.out = <<>>
              /\ resp'.err = <<>>
              /\ UNCHANGED store]_vars

\* A null answer to an update while Tasks and a dependent are persisted.
C10_Witness ==
    /\ resp.op = "updateTask"
    /\ resp.out = <<>>
    /\ resp.err = <<>>
    /\ tasks # {}
    /\ executionResults \cup chatMessages # {}

\* C11: deleteTask with an id without a Task returns false and leaves every
\* Task, ExecutionResult and ChatMessage unchanged; it returns true only if a
\* Task with that id existed right before the call.
C11_DeleteOfMissingTask ==
    [][\A id \in TaskIds :
          (resp'.op = "deleteTask" /\ resp'.input = id /\ deleteTask(id)) =>
              /\ resp'.err = <<>>
              /\ selectTask(id) = {} => (resp'.out = <<FALSE>> /\ UNCHANGED store)
              /\ resp'.out = <<TRUE>> => selectTask(id) # {}]_vars

\* A false answer to a delete while another Task and a dependent are persisted.
C11_Witness ==
    /\ resp.op = "deleteTask"
    /\ resp.out = <<FALSE>>
    /\ tasks # {}
    /\ executionResults \cup chatMessages # {}

\* The ChatMessages of Task id, and the k-th of them in insertion order.
messagesOf(id) == {m \in chatMessages : m.task_id = id}
nthMessage(id, k) ==
    CHOOSE m \in messagesOf(id) : Cardinality({o \in messagesOf(id) : o.id < m.id}) = k - 1

\* C12: getChatMessages for Task T answers T's messages by ascending timestamp
\* with limit and offset applied after the ordering: when the N messages of T
\* have distinct timestamps the answer is exactly m(offset+1) .. m(min(offset +
\* limit, N)) of T's messages in insertion order, and empty when offset >= N.
C12_ChatMessagesPage ==
    (resp.op = "getChatMessages" /\ resp.err = <<>>) =>
        LET q == getChatMessagesQueryParsed(resp.input)
            N == Cardinality(messagesOf(q.task_id))
            last == Min(q.offset + q.limit, N)
        IN  /\ \A i \in 1..Len(resp.out) : resp.out[i] \in messagesOf(q.task_id)
            /\ \A i \in 1..(Len(resp.out) - 1) :
                   resp.out[i].timestamp <= resp.out[i + 1].timestamp
            /\ (\A m, o \in messagesOf(q.task_id) : m # o => m.timestamp # o.timestamp) =>
                   /\ Len(resp.out) = Max(0, last - q.offset)
                   /\ \A i \in 1..Len(resp.out) :
                          resp.out[i] = nthMessage(q.task_id, q.offset + i)
                   /\ q.offset >= N => resp.out = <<>>

\* The second page of two over five messages with distinct timestamps.
C12_Witness ==
    /\ resp.op = "getChatMessages"
    /\ resp.err = <<>>
    /\ "limit" \in DOMAIN resp.input /\ resp.input.limit = Num(2, 0)
    /\ "offset" \in DOMAIN resp.input /\ resp.input.offset = Num(2, 0)
    /\ Cardinality(messagesOf(resp.input.task_id)) = 5
    /\ \A m, o \in messagesOf(resp.input.task_id) : m # o => m.timestamp # o.timestamp
    /\ Len(resp.out) = 2
    /\ resp.out[1].id = 3 /\ resp.out[2].id = 4

\* The ExecutionResults of Task id.
resultsOf(id) == {r \in executionResults : r.task_id = id}

\* C13: getExecutionResults for task_id T answers every ExecutionResult of T,
\* however many, by descending created_at (the most recently created first when
\* the created_at values differ), and answers the empty sequence, not an error,
\* when T has no results or does not exist.
C13_AllResultsNewestFirst ==
    resp.op = "getExecutionResults" =>
        LET T == resp.input.task_id
        IN  /\ resp.err = <<>>
            /\ {resp.out[i] : i \in 1..Len(resp.out)} = resultsOf(T)
            /\ Len(resp.out) = Cardinality(resultsOf(T))
            /\ \A i \in 1..(Len(resp.out) - 1) :
                   /\ resp.out[i].created_at >= resp.out[i + 1].created_at
                   /\ resp.out[i].created_at # resp.out[i + 1].created_at =>
                          resp.out[i].id > resp.out[i + 1].id
            /\ (resultsOf(T) = {} \/ selectTask(T) = {}) => resp.out = <<>>

\* Three results of one Task, created at different times, beside another
\* Task's results.
C13_Witness ==
    /\ resp.op = "getExecutionResults"
    /\ Len(resp.out) = 3
    /\ resp.out[1].created_at > resp.out[2].created_at
    /\ resp.out[2].created_at > resp.out[3].created_at
    /\ \E r \in executionResults : r.task_id # resp.input.task_id

\* C14 as claimed: in every reachable state every persisted Task has
\* updated_at >= created_at.
C14_UpdatedAtNotBeforeCreatedAt ==
    \A t \in tasks : t.updated_at >= t.created_at

\* C15 as claimed: in every reachable state every persisted Task has a
\* non-empty title and a non-empty agent_type, the requests having passed the
\* validation layer.
C15_TitleAndAgentTypeNonEmpty ==
    \A t \in tasks : t.title # "" /\ t.agent_type # ""

\* C16: a GetTasksQuery or GetChatMessagesQuery is accepted only if its limit
\* is an integer in 1..100 and its offset an integer >= 0, an omitted limit
\* standing for 50 and an omitted offset for 0; so getTasks and getChatMessages
\* never answer more than limit records, and never more than 100.
C16_PageSizeIsBounded ==
    (resp.op \in {"getTasks", "getChatMessages"} /\ resp.err = <<>>) =>
        LET q == resp.input
            limit == IF "limit" \in DOMAIN q THEN q.limit.int ELSE 50
            offset == IF "offset" \in DOMAIN q THEN q.offset.int ELSE 0
        IN  /\ "limit" \in DOMAIN q =>
                   (q.limit.frac = 0 /\ q.limit.int >= 1 /\ q.limit.int <= 100)
            /\ "offset" \in DOMAIN q => (q.offset.frac = 0 /\ q.offset.int >= 0)
            /\ Len(resp.out) <= limit
            /\ Len(resp.out) <= 100
            /\ resp.op = "getTasks" =>
                   Len(resp.out) =
                       Min(limit, Max(0, Cardinality(
                           {t \in tasks :
                               /\ q.status # ABSENT => t.status = q.status
                               /\ q.agent_type # ABSENT => t.agent_type = q.agent_type})
                           - offset))
            /\ resp.op = "getChatMessages" =>
                   Len(resp.out) =
                       Min(limit, Max(0, Cardinality(messagesOf(q.task_id)) - offset))

\* An accepted getTasks with limit 1 and no offset that answered one Task of two.
C16_Witness ==
    /\ resp.op = "getTasks"
    /\ resp.err = <<>>
    /\ "limit" \in DOMAIN resp.input /\ resp.input.limit = Num(1, 0)
    /\ "offset" \notin DOMAIN resp.input
    /\ resp.input.status = ABSENT /\ resp.input.agent_type = ABSENT
    /\ Cardinality(tasks) = 2
    /\ Len(resp.out) = 1

\* The ExecutionResults and ChatMessages of Task id that a step removes.
removedDependents(id) ==
    {r \in executionResults \ executionResults' : r.task_id = id}
        \cup {m \in chatMessages \ chatMessages' : m.task_id = id}

\* C17: deleteTask is atomic for whatever runs between other requests'
\* statements: no step leaves Task T absent with one of its ExecutionResults or
\* ChatMessages present, and no step removes some of T's dependents without
\* removing T and all of them.
C17_DeleteIsAtomic ==
    [][\A id \in TaskIds :
          /\ (selectTask(id) # {} /\ selectTask(id)' = {}) =>
                 (resultsOf(id)' = {} /\ messagesOf(id)' = {})
          /\ removedDependents(id) # {} =>
                 (selectTask(id)' = {} /\ resultsOf(id)' = {} /\ messagesOf(id)' = {})]_vars

\* A delete that removed two dependents or more while a create call was
\* between its existence check and its insert.
C17_Witness ==
    /\ resp.op = "deleteTask"
    /\ resp.out = <<TRUE>>
    /\ resp.cascade[1] + resp.cascade[2] >= 2
    /\ pendingResults \cup pendingMessages # {}

\* C18: Task ids are unique and monotonically assigned.  The serial never
\* steps back and is never below an id that createTask returned; each
\* createTask returns an id above the serial, so above every id returned
\* before, whether its Task is still persisted or was deleted; and no two
\* persisted Tasks share an id.
C18_TaskIdsGrow ==
    [][/\ taskSeq' >= taskSeq
       /\ \A t \in tasks' : t.id <= taskSeq'
       /\ \A t, u \in tasks' : t.id = u.id => t = u
       /\ \A input \in CreateTaskInputs :
            (resp'.op = "createTask" /\ resp'.input = input /\ createTask(input)) =>
                /\ Len(resp'.out) = 1
                /\ resp'.out[1].id > taskSeq
                /\ resp'.out[1].id <= taskSeq'
                /\ \A t \in tasks : resp'.out[1].id > t.id]_vars

\* A Task created after the deletion of the first one: it got id 2, not 1.
C18_Witness ==
    /\ resp.op = "createTask"
    /\ Len(resp.out) = 1
    /\ resp.out[1].id = 2
    /\ tasks = {resp.out[1]}

\* C19: getTaskById(id) answers the Task with exactly that id and its current
\* field values when it exists (after an updateTask: the updated record) and
\* the null result, no error, when no Task has that id, also for the id of a
\* Task that was just deleted.
C19_GetTaskById ==
    [][/\ \A id \in TaskIds :
            IF \E t \in tasks' : t.id = id
            THEN getTaskById(id)' \in {<<t>> : t \in {u \in tasks' : u.id = id}}
            ELSE getTaskById(id)' = <<>>
       /\ \A input \in UpdateTaskInputs :
            (selectTask(input.id) # {} /\ resp'.op = "updateTask" /\ resp'.input = input
                /\ updateTask(input)) =>
                getTaskById(input.id)' = resp'.out
       /\ \A id \in TaskIds :
            (selectTask(id) # {} /\ resp'.op = "deleteTask" /\ resp'.input = id
                /\ deleteTask(id)) => getTaskById(id)' = <<>>]_vars

\* A Task deleted while an updated Task stays persisted.
C19_Witness ==
    /\ resp.op = "deleteTask"
    /\ resp.out = <<TRUE>>
    /\ \E t \in tasks : t.status # "pending" /\ t.id # resp.input

\* C20 as claimed: whenever createExecutionResult or createChatMessage does not
\* insert because the referenced Task does not exist, the caller gets the
\* handler's "task not found" error naming the task_id, never the store's own
\* error, also when the Task was deleted between the check and the insert.
C20_MissingTaskErrorKind ==
    (/\ resp.op \in {"createExecutionResult", "createChatMessage"}
     /\ resp.err # <<>>
     /\ resp.err # <<"ValidationError">>) =>
        /\ Len(resp.err) = 3
        /\ resp.err[1] = "Error"
        /\ resp.err[3] = resp.input.task_id

\* A persisted row is kept as it is by a step, or goes with a deleteTask of the
\* Task that owns it.
writeOnce(rows, rowsAfter) ==
    \A r \in rows :
        /\ \A u \in rowsAfter : u.id = r.id => u = r
        /\ r \notin rowsAfter =>
               /\ resp'.op = "deleteTask"
               /\ resp'.input = r.task_id
               /\ selectTask(r.task_id) # {}
               /\ selectTask(r.task_id)' = {}

\* C21: ExecutionResults and ChatMessages are write-once: no step of any
\* operation changes a field of a persisted record, task_id included; the one
\* thing that can happen to it is its removal by deleteTask of its owning Task.
C21_DependentsAreWriteOnce ==
    [][/\ writeOnce(executionResults, executionResults')
       /\ writeOnce(chatMessages, chatMessages')]_vars

\* An updateTask of a Task that owns an ExecutionResult and a ChatMessage.
C21_Witness ==
    /\ resp.op = "updateTask"
    /\ Len(resp.out) = 1
    /\ resultsOf(resp.input.id) # {}
    /\ messagesOf(resp.input.id) # {}

\* The ways to fetch the pages 0..K of page size query.limit, one query each.
taskPages(query, K) ==
    {f \in [0..K -> UNION {getTasks([query EXCEPT !.offset = k * query.limit]) : k \in 0..K}] :
        \A k \in 0..K : f[k] \in getTasks([query EXCEPT !.offset = k * query.limit])}

messagePages(query, K) ==
    {f \in [0..K -> UNION {getChatMessages([query EXCEPT !.offset = k * query.limit]) :
                              k \in 0..K}] :
        \A k \in 0..K : f[k] \in getChatMessages([query EXCEPT !.offset = k * query.limit])}

\* Every row of rows is at exactly one place of the pages f[0] .. f[K].
exactlyOnce(f, K, rows) ==
    \A r \in rows :
        Cardinality({p \in (0..K) \X (1..MaxSteps) :
                        p[2] <= Len(f[p[1]]) /\ f[p[1]][p[2]] = r}) = 1

\* C22 as claimed: over an unchanged store the pages of getTasks and of
\* getChatMessages at offsets 0, L, 2L, ... are pairwise disjoint and together
\* hold every matching record exactly once, also when records share the
\* ordering timestamp.
C22_PagingIsConsistent ==
    /\ \A q \in GetTasksQueries :
          (q.offset = 0 /\ q.limit <= 2) =>
              \A f \in taskPages(q, MaxTasks) :
                  exactlyOnce(f, MaxTasks, {t \in tasks : getTasksConditions(q, t)})
    /\ \A q \in GetChatMessagesQueries :
          (q.offset = 0 /\ q.limit <= 2) =>
              \A f \in messagePages(q, MaxSteps) :
                  exactlyOnce(f, MaxSteps, messagesOf(q.task_id))

\* C23 as claimed: every filter a getTasks query supplies is applied, the
\* empty string included: it answers no Task whose agent_type differs from a
\* supplied agent_type, and none whose status differs from a supplied status.
C23_SuppliedFiltersApply ==
    \A q \in GetTasksQueries : \A r \in getTasks(q) : \A i \in 1..Len(r) :
        /\ q.agent_type # ABSENT => r[i].agent_type = q.agent_type
        /\ q.status # ABSENT => r[i].status = q.status

\* C24: a storage failure inside an operation is never swallowed: the call
\* gives no normal result but fails with the very error the store raised, and
\* the statement is not run again (nothing is written by the failed call).
C24_StorageFailureIsRethrown ==
    [][resp'.raised # <<>> =>
          /\ resp'.err = resp'.raised
          /\ resp'.out = <<>>
          /\ UNCHANGED <<store, seqs>>]_vars

\* The insert of a createExecutionResult failed on the store although the Task
\* it references exists.
C24_Witness ==
    /\ resp.op = "createExecutionResult"
    /\ resp.raised \in StorageErrors
    /\ selectTask(resp.input.task_id) # {}
    /\ pendingResults = {}

\* What a refused request leaves behind: a validation error for the caller,
\* no statement issued, no call left between its check and its insert.
refused ==
    /\ resp'.err = <<"ValidationError">>
    /\ resp'.out = <<>>
    /\ UNCHANGED <<store, seqs, pending>>

\* C25: a request that violates the validation layer (createTask with an empty
\* title or agent_type, createChatMessage with empty content,
\* createExecutionResult with a negative execution_time_ms or an unknown
\* content_type or status) is refused before its handler runs, and the
\* persisted state is unchanged.
C25_InvalidRequestIsRefused ==
    [][/\ \A input \in CreateTaskInputs :
            ((input.title = "" \/ input.agent_type = "")
                /\ resp'.op = "createTask" /\ resp'.input = input
                /\ appRouter_createTask(input)) => refused
       /\ \A input \in ChatMessageInputs :
            (input.content = "" /\ appRouter_createChatMessage(input)) => refused
       /\ \A input \in ExecutionResultInputs :
            ((\/ input.execution_time_ms < 0
              \/ input.content_type \notin {"text", "code", "json", "markdown"}
              \/ input.status \notin {"success", "error", "partial"})
                /\ appRouter_createExecutionResult(input)) => refused]_vars

\* A createExecutionResult refused by the validation layer although the Task
\* it names exists.
C25_Witness ==
    /\ resp.op = "createExecutionResult"
    /\ resp.err = <<"ValidationError">>
    /\ selectTask(resp.input.task_id) # {}

\* C26: deleteTask(T) on an existing Task T removes only T and T's own
\* dependents: every other Task and every ExecutionResult and ChatMessage of
\* another Task is persisted unchanged afterwards, and nothing is added.
C26_DeleteLeavesOtherTasksAlone ==
    [][\A id \in TaskIds :
          (selectTask(id) # {} /\ resp'.op = "deleteTask" /\ resp'.input = id
              /\ deleteTask(id)) =>
              /\ tasks' = {t \in tasks : t.id # id}
              /\ executionResults' = {r \in executionResults : r.task_id # id}
              /\ chatMessages' = {m \in chatMessages : m.task_id # id}]_vars

\* A delete that took a dependent of its Task and left another Task with a
\* dependent of its own.
C26_Witness ==
    /\ resp.op = "deleteTask"
    /\ resp.out = <<TRUE>>
    /\ resp.cascade[1] + resp.cascade[2] >= 1
    /\ tasks # {}
    /\ executionResults \cup chatMessages # {}

\* C27: getExecutionResults and getChatMessages for task_id T never answer a
\* record whose task_id is not T, whatever other Tasks own and however the
\* inserts for different Tasks were interleaved.
C27_ReadsAreScopedToTheTask ==
    (resp.op \in {"getExecutionResults", "getChatMessages"} /\ resp.err = <<>>) =>
        \A i \in 1..Len(resp.out) : resp.out[i].task_id = resp.input.task_id

\* Two ChatMessages of one Task answered, a ChatMessage of another Task having
\* been inserted between them.
C27_Witness ==
    /\ resp.op = "getChatMessages"
    /\ Len(resp.out) >= 2
    /\ \E m \in chatMessages :
          /\ m.task_id # resp.input.task_id
          /\ resp.out[1].id < m.id
          /\ m.id < resp.out[2].id

\* The panel shows what the store holds for Task id.
panelShows(id) ==
    /\ panelExecutionResults \in getExecutionResults([task_id |-> id])
    /\ panelChatMessages \in getChatMessages(chatMessagesQuery(id))

\* C28: in ExecutionPanel, once no load request is outstanding (and each was
\* answered, none failed), the execution results and chat messages in the
\* panel's state are those of the selected Task, whatever the selections, the
\* refresh clicks and the order in which the responses arrived.
C28_PanelShowsTheSelectedTask ==
    (loads = {} /\ loadErrors = 0 /\ selectedTask # <<>>) => panelShows(selectedTask[1])

\* C29: in CreateTaskDialog a submit with an empty title or an empty
\* agent_type issues no onSubmit call; any other submit issues exactly one,
\* with the form's data; isLoading is true while that call is pending, and is
\* false again at the step the call settles, resolved or rejected.
C29_SubmitIssuesOneCallAndLoadingEnds ==
    [][/\ (nSubmits' = nSubmits + 1 /\ (formData.title = "" \/ formData.agent_type = "")) =>
              /\ onSubmitCalls' = onSubmitCalls
              /\ onSubmitPending' = onSubmitPending
       /\ (nSubmits' = nSubmits + 1 /\ formData.title # "" /\ formData.agent_type # "") =>
              /\ onSubmitCalls' = Append(onSubmitCalls, formData)
              /\ onSubmitPending' = <<formData>>
       /\ nSubmits' = nSubmits => onSubmitCalls' = onSubmitCalls
       /\ onSubmitPending' # <<>> => isLoading'
       /\ (onSubmitPending # <<>> /\ onSubmitPending' = <<>>) => ~isLoading']_vars

\* Two submits, one ignored for its empty title or agent_type, the other
\* issuing the one onSubmit call, which has settled: isLoading is false again
\* and the form holds the submitted values.
C29_Witness ==
    /\ nSubmits = 2
    /\ Len(onSubmitCalls) = 1
    /\ onSubmitPending = <<>>
    /\ ~isLoading
    /\ formData = onSubmitCalls[1]
    /\ isCreateDialogOpen

\* The createTask request of the pending onSubmit call is answered in this step.
createTaskSettles == onSubmitPending # <<>> /\ onSubmitPending' = <<>>

\* C30: in CreateTaskDialog used by TaskPanel, the form is reset to empty only
\* at a step in which the createTask request succeeded; when the request
\* fails, the form keeps the values the user entered and the dialog stays as
\* open as it was.
C30_FormIsResetOnlyOnSuccess ==
    [][/\ (formData.agent_type # "" /\ formData' = emptyFormData) =>
              (createTaskSettles /\ resp'.op = "createTask" /\ resp'.err = <<>>)
       /\ (createTaskSettles /\ resp'.err # <<>>) =>
              /\ formData' = formData
              /\ isCreateDialogOpen' = isCreateDialogOpen]_vars

====
